---- MODULE Spec2Model ----
(***************************************************************************)
(* Model of steganography.py: can_encode, iter_bits_of_str,                *)
(* write_steganography and read_steganography.                             *)
(*                                                                         *)
(* A str is a sequence of code points, a bytes object a sequence of        *)
(* numbers 0..255.  The loops of write_steganography and                   *)
(* read_steganography advance one iteration per step; the codecs and       *)
(* iter_bits_of_str are operators.  int.to_bytes(1) is taken with its      *)
(* default byteorder (Python 3.11 or later).  The hidden texts are drawn   *)
(* from code points below 256, which all three modelled codecs encode.     *)
(***************************************************************************)
EXTENDS Integers, Sequences, FiniteSets, TLC

\* ---------------------------------------------------------------- bounds
MaxCarrier == 18      \* longest carrier text handed to the entry points
MaxHidden == 2        \* longest hidden text, in characters
MaxReadBits == 9      \* most character slots of a text read directly

\* ------------------------------------------------------------- constants
ZERO_WIDTH_SPACE == 8203
UNDERSCORE == 95

Encodings == {"utf-8", "latin-1", "utf-16-le"}
HiddenChars == {ZERO_WIDTH_SPACE, UNDERSCORE}
\* NUL, 'b' (0x62, last bit 0) and e-acute (0xE9: one byte in latin-1, two in utf-8)
HiddenAlphabet == {0, 98, 233}

\* ------------------------------------------------------------ str.encode
Utf8EncodeChar(cp) ==
    IF cp < 128 THEN <<cp>>
    ELSE IF cp < 2048 THEN <<192 + (cp \div 64), 128 + (cp % 64)>>
    ELSE IF cp < 65536
        THEN <<224 + (cp \div 4096), 128 + ((cp \div 64) % 64), 128 + (cp % 64)>>
    ELSE <<240 + (cp \div 262144), 128 + ((cp \div 4096) % 64),
           128 + ((cp \div 64) % 64), 128 + (cp % 64)>>

Utf16leEncodeChar(cp) ==
    IF cp < 65536 THEN <<cp % 256, cp \div 256>>
    ELSE LET v == cp - 65536
             hi == 55296 + (v \div 1024)
             lo == 56320 + (v % 1024)
         IN <<hi % 256, hi \div 256, lo % 256, lo \div 256>>

EncodeChar(cp, encoding) ==
    CASE encoding = "utf-8" -> Utf8EncodeChar(cp)
      [] encoding = "latin-1" -> <<cp>>
      [] encoding = "utf-16-le" -> Utf16leEncodeChar(cp)

RECURSIVE str_encode(_, _)
str_encode(str, encoding) ==
    IF str = <<>> THEN <<>>
    ELSE EncodeChar(Head(str), encoding) \o str_encode(Tail(str), encoding)

\* ---------------------------------------------------------- bytes.decode
\* Each decoder returns [ok |-> BOOLEAN, val |-> str]; ok = FALSE is
\* UnicodeDecodeError.
DecodeError == [ok |-> FALSE, val |-> <<>>]

IsCont(b) == b >= 128 /\ b <= 191

\* The first character of a UTF-8 byte sequence: [n |-> bytes used, cp |-> code point],
\* n = 0 for an invalid or truncated sequence (strict error handler).
Utf8First(b) ==
    LET n == Len(b)
        b1 == b[1]
    IN  IF b1 < 128 THEN [n |-> 1, cp |-> b1]
        ELSE IF b1 >= 194 /\ b1 <= 223
            THEN IF n >= 2 /\ IsCont(b[2])
                 THEN [n |-> 2, cp |-> (b1 - 192) * 64 + (b[2] - 128)]
                 ELSE [n |-> 0, cp |-> 0]
        ELSE IF b1 >= 224 /\ b1 <= 239
            THEN IF /\ n >= 3
                    /\ IsCont(b[2])
                    /\ IsCont(b[3])
                    /\ (b1 = 224 => b[2] >= 160)
                    /\ (b1 = 237 => b[2] <= 159)
                 THEN [n |-> 3,
                       cp |-> (b1 - 224) * 4096 + (b[2] - 128) * 64 + (b[3] - 128)]
                 ELSE [n |-> 0, cp |-> 0]
        ELSE IF b1 >= 240 /\ b1 <= 244
            THEN IF /\ n >= 4
                    /\ IsCont(b[2])
                    /\ IsCont(b[3])
                    /\ IsCont(b[4])
                    /\ (b1 = 240 => b[2] >= 144)
                    /\ (b1 = 244 => b[2] <= 143)
                 THEN [n |-> 4,
                       cp |-> (b1 - 240) * 262144 + (b[2] - 128) * 4096
                              + (b[3] - 128) * 64 + (b[4] - 128)]
                 ELSE [n |-> 0, cp |-> 0]
        ELSE [n |-> 0, cp |-> 0]

RECURSIVE Utf8Decode(_)
Utf8Decode(b) ==
    IF b = <<>> THEN [ok |-> TRUE, val |-> <<>>]
    ELSE LET f == Utf8First(b)
         IN  IF f.n = 0 THEN DecodeError
             ELSE LET rest == Utf8Decode(SubSeq(b, f.n + 1, Len(b)))
                  IN  IF rest.ok
                      THEN [ok |-> TRUE, val |-> <<f.cp>> \o rest.val]
                      ELSE DecodeError

RECURSIVE Latin1Decode(_)
Latin1Decode(b) ==
    IF b = <<>> THEN [ok |-> TRUE, val |-> <<>>]
    ELSE [ok |-> TRUE, val |-> <<Head(b)>> \o Latin1Decode(Tail(b)).val]

IsHighSurrogate(u) == u >= 55296 /\ u <= 56319
IsLowSurrogate(u) == u >= 56320 /\ u <= 57343

RECURSIVE Utf16leDecode(_)
Utf16leDecode(b) ==
    IF b = <<>> THEN [ok |-> TRUE, val |-> <<>>]
    ELSE IF Len(b) < 2 THEN DecodeError
    ELSE LET u == b[1] + 256 * b[2]
         IN  IF IsLowSurrogate(u) THEN DecodeError
             ELSE IF IsHighSurrogate(u)
                 THEN IF Len(b) < 4 THEN DecodeError
                      ELSE LET w == b[3] + 256 * b[4]
                               rest == Utf16leDecode(SubSeq(b, 5, Len(b)))
                           IN  IF IsLowSurrogate(w) /\ rest.ok
                               THEN [ok |-> TRUE,
                                     val |-> <<65536 + (u - 55296) * 1024 + (w - 56320)>>
                                             \o rest.val]
                               ELSE DecodeError
             ELSE LET rest == Utf16leDecode(SubSeq(b, 3, Len(b)))
                  IN  IF rest.ok
                      THEN [ok |-> TRUE, val |-> <<u>> \o rest.val]
                      ELSE DecodeError

bytes_decode(b, encoding) ==
    CASE encoding = "utf-8" -> Utf8Decode(b)
      [] encoding = "latin-1" -> Latin1Decode(b)
      [] encoding = "utf-16-le" -> Utf16leDecode(b)

\* ------------------------------------------------------------ can_encode
can_encode_strict(text, hidden_text_arg, encoding) ==
    LET hidden_text_bytes == str_encode(hidden_text_arg, encoding)
        required_chars == Len(hidden_text_bytes) * 8 + 1
    IN  Len(text) > required_chars

can_encode(text, hidden_text_arg, encoding) ==
    LET hidden_text_bytes == str_encode(hidden_text_arg, encoding)
        required_chars == Len(hidden_text_bytes) * 8 + 1
    IN  Len(text) >= required_chars

\* ------------------------------------------------------ iter_bits_of_str
\* f"{byte:08b}": the binary digits of byte, zero-padded on the left to width 8.
RECURSIVE BinDigits(_)
BinDigits(n) == IF n < 2 THEN <<n>> ELSE BinDigits(n \div 2) \o <<n % 2>>

RECURSIVE ZeroPad(_, _)
ZeroPad(digits, width) ==
    IF Len(digits) >= width THEN digits ELSE ZeroPad(<<0>> \o digits, width)

RECURSIVE Reversed(_)
Reversed(digits) ==
    IF digits = <<>> THEN <<>> ELSE Append(Reversed(Tail(digits)), Head(digits))

Format08bLsbFirst(byte) == Reversed(ZeroPad(BinDigits(byte), 8))

Format08b(byte) == ZeroPad(BinDigits(byte), 8)

RECURSIVE BitsOfBytes(_)
BitsOfBytes(b) ==
    IF b = <<>> THEN <<>>
    ELSE [k \in 1..8 |-> Format08b(Head(b))[k] = 1] \o BitsOfBytes(Tail(b))

\* The whole sequence the generator yields, in order.
iter_bits_of_str(str, encoding) == BitsOfBytes(str_encode(str, encoding))

IntBase2LsbFirst(digits) ==
    LET RECURSIVE Value(_)
        Value(d) == IF d = <<>> THEN 0 ELSE Head(d) + 2 * Value(Tail(d))
    IN  Value(digits)

\* int(current_byte, 2)
RECURSIVE IntBase2(_)
IntBase2(digits) ==
    IF digits = <<>> THEN 0
    ELSE 2 * IntBase2(SubSeq(digits, 1, Len(digits) - 1)) + digits[Len(digits)]

\* ---------------------------------------------------------------- inputs
\* A carrier of L distinct-looking letters; position p (if any) holds "_".
CarrierText(L, p) ==
    [i \in 1..L |-> IF i = p THEN UNDERSCORE ELSE 97 + ((i - 1) % 26)]

Carriers == {CarrierText(L, p) : L \in 0..MaxCarrier, p \in 0..MaxCarrier}
PlainCarriers == {CarrierText(L, 0) : L \in 0..MaxCarrier}

HiddenTexts == UNION {[1..n -> HiddenAlphabet] : n \in 0..MaxHidden}

\* Texts handed to read_steganography directly: one 'x' per slot, followed
\* by the marker where the pattern says so, optionally led by a stray marker
\* and optionally closed by one more 'x'.
RECURSIVE SlotText(_, _)
SlotText(pattern, marker) ==
    IF pattern = <<>> THEN <<>>
    ELSE (IF Head(pattern) = 1 THEN <<120, marker>> ELSE <<120>>)
         \o SlotText(Tail(pattern), marker)

ReadText(pattern, lead, tail, marker) ==
    (IF lead = 1 THEN <<marker>> ELSE <<>>)
    \o SlotText(pattern, marker)
    \o (IF tail = 1 THEN <<120>> ELSE <<>>)

Patterns == UNION {[1..n -> {0, 1}] : n \in 0..MaxReadBits}

\* ----------------------------------------------------------------- state
VARIABLES
    entry,          \* the function the caller invoked
    pc,             \* position in the running function
    text,           \* write_steganography / can_encode: text
    hidden_text,    \* write_steganography / can_encode: hidden_text
    encoding,       \* the encoding argument
    hidden_char,    \* the hidden_char argument
    can_result,     \* value returned by a direct can_encode call
    string_buffer,  \* write_steganography: string_buffer contents
    text_pos,       \* write_steganography: characters taken from text_chars
    bit_pos,        \* write_steganography: bits taken from hidden_text_bits
    r_text,         \* read_steganography: text
    scan_pos,       \* read_steganography: items taken from enumerate(text)
    hidden_bytes,   \* read_steganography: hidden_bytes
    current_byte,   \* read_steganography: current_byte, as digits
    recorded,       \* history: every bit appended to current_byte, in order
    result          \* read_steganography: outcome of hidden_bytes.decode

vars == <<entry, pc, text, hidden_text, encoding, hidden_char, can_result,
          string_buffer, text_pos, bit_pos, r_text, scan_pos, hidden_bytes,
          current_byte, recorded, result>>

inputs == <<entry, text, hidden_text, encoding, hidden_char>>
write_vars == <<string_buffer, text_pos, bit_pos>>
read_vars == <<r_text, scan_pos, hidden_bytes, current_byte, recorded, result>>

NoResult == [ok |-> FALSE, val |-> <<>>]

Locals ==
    /\ can_result = FALSE
    /\ string_buffer = <<>>
    /\ text_pos = 0
    /\ bit_pos = 0
    /\ scan_pos = 0
    /\ hidden_bytes = <<>>
    /\ current_byte = <<>>
    /\ recorded = <<>>
    /\ result = NoResult

\* A caller asks can_encode directly.
InitCanEncode ==
    /\ entry = "can_encode"
    /\ pc = "c_call"
    /\ text \in PlainCarriers
    /\ hidden_text \in HiddenTexts
    /\ encoding \in Encodings
    /\ hidden_char = ZERO_WIDTH_SPACE
    /\ r_text = <<>>
    /\ Locals

\* test(): write_steganography, then read_steganography on what it returned.
InitWrite ==
    /\ entry = "write"
    /\ pc = "w_check"
    /\ text \in Carriers
    /\ hidden_text \in HiddenTexts
    /\ encoding \in Encodings
    /\ hidden_char \in HiddenChars
    /\ r_text = <<>>
    /\ Locals

\* A caller hands read_steganography a text of its own.
InitRead ==
    /\ entry = "read"
    /\ pc = "r_loop"
    /\ text = <<>>
    /\ hidden_text = <<>>
    /\ encoding \in Encodings
    /\ hidden_char \in HiddenChars
    /\ \E pattern \in Patterns, lead \in {0, 1}, tail \in {0, 1} :
           r_text = ReadText(pattern, lead, tail, hidden_char)
    /\ Locals

Init == InitCanEncode \/ InitWrite \/ InitRead

\* --------------------------------------------------------------- actions
\* can_encode(text, hidden_text, encoding), called by the caller.
CanEncodeCall ==
    /\ pc = "c_call"
    /\ can_result' = can_encode(text, hidden_text, encoding)
    /\ pc' = "c_returned"
    /\ UNCHANGED <<inputs, write_vars, read_vars>>

\* Line 31: can_encode is called without the encoding argument, so its
\* default "utf-8" applies whatever encoding write_steganography was given.
CapacityCheck(t, h) == can_encode(t, h, "utf-8")

\* Lines 31-32: the capacity check and the first ValueError.
WriteCheck ==
    /\ pc = "w_check"
    /\ pc' = IF ~CapacityCheck(text, hidden_text) THEN "w_error_check"
             ELSE "w_loop"
    /\ UNCHANGED <<inputs, can_result, write_vars, read_vars>>

\* Lines 47-48: what follows a carrier character that carried a bit.
MarkAlways(bit, marker) == <<marker>>

Mark(bit, marker) == IF bit THEN <<marker>> ELSE <<>>

\* Lines 39-48: one iteration of the for loop, or its end.
WriteLoopStep ==
    /\ pc = "w_loop"
    /\ LET bits == iter_bits_of_str(hidden_text, encoding)
       IN  IF text_pos >= Len(text)
           THEN \* text_chars is exhausted: the for loop ends
                /\ pc' = "w_guard"
                /\ UNCHANGED write_vars
           ELSE LET char == text[text_pos + 1]
                IN  IF bit_pos >= Len(bits)
                    THEN \* next(hidden_text_bits) raises StopIteration: break
                         /\ string_buffer' = Append(string_buffer, char)
                         /\ text_pos' = text_pos + 1
                         /\ bit_pos' = bit_pos
                         /\ pc' = "w_guard"
                    ELSE /\ string_buffer' =
                                Append(string_buffer, char)
                                \o Mark(bits[bit_pos + 1], hidden_char)
                         /\ text_pos' = text_pos + 1
                         /\ bit_pos' = bit_pos + 1
                         /\ pc' = "w_loop"
    /\ UNCHANGED <<inputs, can_result, read_vars>>

\* Line 57: "".join(text_chars), the characters the loop did not take.
RestDropped(t, pos) == <<>>

RestOfText(t, pos) == SubSeq(t, pos + 1, Len(t))

\* Lines 50-59: the guard after the loop, the rest of the text, the return.
WriteGuard ==
    /\ pc = "w_guard"
    /\ LET bits == iter_bits_of_str(hidden_text, encoding)
       IN  IF bit_pos < Len(bits)
           THEN \* a bit is left: the second ValueError
                /\ pc' = "w_error_guard"
                /\ UNCHANGED write_vars
           ELSE /\ string_buffer' = string_buffer \o RestOfText(text, text_pos)
                /\ text_pos' = Len(text)
                /\ bit_pos' = bit_pos
                /\ pc' = "w_returned"
    /\ UNCHANGED <<inputs, can_result, read_vars>>

\* test() line 99: read_steganography is called on the written text with
\* the same encoding and hidden_char.
ReadCall ==
    /\ pc = "w_returned"
    /\ r_text' = string_buffer
    /\ pc' = "r_loop"
    /\ UNCHANGED <<inputs, can_result, write_vars, scan_pos, hidden_bytes,
                   current_byte, recorded, result>>

\* Line 72: index is the last index of the text.
AtLastCharEarly(index, t) == index + 2 >= Len(t)

AtLastChar(index, t) == index + 1 >= Len(t)

\* Lines 75-79: items of enumerate(text) taken by an iteration that records a bit.
TakenKeepsMarker(marked) == 1

Taken(marked) == IF marked THEN 2 ELSE 1

\* Line 82: current_byte == "00000000".
Zeros8 == <<0, 0, 0, 0, 0, 0, 0, 0>>

IsNullByteNever(byte) == FALSE

IsNullByte(byte) == byte = Zeros8

\* Lines 71-87: one iteration of the for loop, or its end.
ReadStep ==
    /\ pc = "r_loop"
    /\ IF scan_pos >= Len(r_text)
       THEN \* enumerate(text) is exhausted: the for loop ends
            /\ pc' = "r_done"
            /\ UNCHANGED <<scan_pos, hidden_bytes, current_byte, recorded>>
       ELSE LET index == scan_pos
            IN  IF AtLastChar(index, r_text)
                THEN \* break: nothing is recorded for this character
                     /\ scan_pos' = scan_pos + 1
                     /\ pc' = "r_done"
                     /\ UNCHANGED <<hidden_bytes, current_byte, recorded>>
                ELSE LET marked == r_text[index + 2] = hidden_char
                         bit == IF marked THEN 1 ELSE 0
                         byte == Append(current_byte, bit)
                     IN  /\ scan_pos' = scan_pos + Taken(marked)
                         /\ recorded' = Append(recorded, bit)
                         /\ IF IsNullByte(byte)
                            THEN \* break: the null byte is not appended
                                 /\ current_byte' = byte
                                 /\ hidden_bytes' = hidden_bytes
                                 /\ pc' = "r_done"
                            ELSE IF Len(byte) = 8
                            THEN /\ hidden_bytes' = Append(hidden_bytes, IntBase2(byte))
                                 /\ current_byte' = <<>>
                                 /\ pc' = "r_loop"
                            ELSE /\ current_byte' = byte
                                 /\ hidden_bytes' = hidden_bytes
                                 /\ pc' = "r_loop"
    /\ UNCHANGED <<inputs, can_result, write_vars, r_text, result>>

\* Line 89: hidden_bytes.decode(encoding).
ReadReturn ==
    /\ pc = "r_done"
    /\ result' = bytes_decode(hidden_bytes, encoding)
    /\ pc' = IF bytes_decode(hidden_bytes, encoding).ok THEN "r_returned"
             ELSE "r_decode_error"
    /\ UNCHANGED <<inputs, can_result, write_vars, r_text, scan_pos,
                   hidden_bytes, current_byte, recorded>>

Next ==
    \/ CanEncodeCall
    \/ WriteCheck
    \/ WriteLoopStep
    \/ WriteGuard
    \/ ReadCall
    \/ ReadStep
    \/ ReadReturn

Spec == Init /\ [][Next]_vars

\* test(): write_steganography and then read_steganography, both with the
\* default encoding.
InitTest ==
    /\ InitWrite
    /\ encoding = "utf-8"

NextTest ==
    \/ WriteCheck
    \/ WriteLoopStep
    \/ WriteGuard
    \/ ReadCall
    \/ ReadStep
    \/ ReadReturn

TestSpec == InitTest /\ [][NextTest]_vars

\* read_steganography alone, called with its default encoding and
\* hidden_char.  The function is synchronous and runs to completion once
\* called, hence the weak fairness of its steps.
InitScan ==
    /\ InitRead
    /\ encoding = "utf-8"
    /\ hidden_char = ZERO_WIDTH_SPACE

NextScan ==
    \/ ReadStep
    \/ ReadReturn

FairScanSpec == InitScan /\ [][NextScan]_vars /\ WF_vars(NextScan)

\* ------------------------------------------------- vocabulary of claims
\* The payload of the call and its bit stream, stated arithmetically:
\* bit i (from 0) is binary digit 7 - i mod 8 of byte i div 8.
Payload == str_encode(hidden_text, encoding)
NBits == 8 * Len(Payload)
BitAt(i) == (Payload[(i \div 8) + 1] \div (2 ^ (7 - (i % 8)))) % 2
OnesBefore(k) == Cardinality({i \in 0..(k - 1) : BitAt(i) = 1})
Min(a, b) == IF a <= b THEN a ELSE b

MarkerInText == \E i \in 1..Len(text) : text[i] = hidden_char
ZeroByteInPayload == \E k \in 1..Len(Payload) : Payload[k] = 0

WriteFailed == pc \in {"w_error_check", "w_error_guard"}
WriteReturned ==
    /\ entry = "write"
    /\ pc \in {"w_returned", "r_loop", "r_done", "r_returned", "r_decode_error"}
WriteOver == WriteFailed \/ WriteReturned
Finished ==
    pc \in {"c_returned", "w_error_check", "w_error_guard", "r_returned",
            "r_decode_error"}
RoundTripped == pc = "r_returned" /\ result.ok /\ result.val = hidden_text

\* Recorded bits, grouped into bytes most-significant bit first.
NGroups == Len(recorded) \div 8
GroupValue(k) ==
    LET RECURSIVE Sum(_)
        Sum(j) == IF j = 0 THEN 0
                  ELSE recorded[8 * (k - 1) + j] * (2 ^ (8 - j)) + Sum(j - 1)
    IN  Sum(8)
ScanOver == pc \in {"r_done", "r_returned", "r_decode_error"}

\* ---------------------------------------------------------------- claims
\* C1 as stated: whenever can_encode(C, H) is true, writing H into C and
\* reading the result back returns H.
C1_RoundTripAsStated ==
    (entry = "write" /\ can_encode(text, hidden_text, "utf-8") /\ Finished)
        => RoundTripped

\* C1, amended: with the default encoding for both calls and the same marker,
\* for every carrier C that does not contain the marker and every hidden text
\* H without a NUL character such that can_encode(C, H) is true, reading what
\* was written returns H.
C1_RoundTrip ==
    (/\ entry = "write"
     /\ encoding = "utf-8"
     /\ can_encode(text, hidden_text, "utf-8")
     /\ ~MarkerInText
     /\ \A i \in 1..Len(hidden_text) : hidden_text[i] # 0
     /\ Finished)
        => RoundTripped

C1_Witness ==
    /\ entry = "write"
    /\ encoding = "utf-8"
    /\ hidden_char = UNDERSCORE
    /\ ~MarkerInText
    /\ Len(hidden_text) >= 2
    /\ RoundTripped

\* C2: can_encode returns true if and only if the carrier length is at
\* least 8*B + 1, B the byte count of the hidden text under the encoding
\* given to can_encode.
C2_CapacityBoundary ==
    pc = "c_returned" =>
        /\ Len(text) < 8 * Len(Payload) + 1 => ~can_result
        /\ Len(text) = 8 * Len(Payload) + 1 => can_result
        /\ Len(text) > 8 * Len(Payload) + 1 => can_result

C2_Witness ==
    /\ pc = "c_returned"
    /\ encoding = "latin-1"
    /\ Len(Payload) >= 1
    /\ Len(text) = 8 * Len(Payload) + 1
    /\ can_result

\* C3: write_steganography fails exactly when the carrier is shorter than
\* 8*B + 1, B the byte count of the hidden text under the encoding argument
\* of write_steganography, and succeeds for every longer carrier.
C3_FailsExactlyBelowCapacity ==
    (entry = "write" /\ WriteOver) =>
        (WriteFailed <=> Len(text) < 8 * Len(Payload) + 1)

\* C4: whenever write_steganography returns, the encoded text is as long as
\* the carrier plus the number of 1-bits taken from the bit stream, and that
\* is the number of 1-bits of the whole payload.
C4_MarkerIsolation ==
    WriteReturned =>
        LET bits == iter_bits_of_str(hidden_text, encoding)
            taken == Cardinality({i \in 1..bit_pos : bits[i]})
        IN  /\ Len(string_buffer) = Len(text) + taken
            /\ taken = OnesBefore(NBits)

C4_Witness ==
    /\ pc = "w_returned"
    /\ OnesBefore(NBits) >= 3
    /\ OnesBefore(NBits) < NBits
    /\ Len(text) > NBits + 1

\* C5: for a non-empty carrier without the marker, writing the empty hidden
\* text succeeds and returns the carrier unchanged, and reading that back
\* yields the empty text, the scan ending on eight 0-bits or on the end of
\* the text.
C5_EmptyPayload ==
    (/\ entry = "write"
     /\ encoding = "utf-8"
     /\ hidden_text = <<>>
     /\ text # <<>>
     /\ ~MarkerInText)
        => /\ ~WriteFailed
           /\ WriteReturned => string_buffer = text
           /\ ScanOver =>
                /\ hidden_bytes = <<>>
                /\ \/ current_byte = Zeros8
                   \/ scan_pos = Len(r_text) /\ Len(current_byte) < 8
           /\ Finished => (pc = "r_returned" /\ result.ok /\ result.val = <<>>)

C5_Witness ==
    /\ entry = "write"
    /\ encoding = "utf-8"
    /\ hidden_text = <<>>
    /\ Len(text) >= 10
    /\ ~MarkerInText
    /\ pc = "r_returned"
    /\ current_byte = Zeros8
    /\ string_buffer = text

\* C6: once the capacity check has passed, the guard after the loop never
\* raises the second error.
C6_GuardUnreachable == pc # "w_error_guard"

\* C7: whenever write_steganography returns, its output is the carrier's
\* characters in order, character i < N followed by exactly one marker when
\* bit i of the payload (most-significant bit first) is 1 and by none when it
\* is 0, and the characters from index N on copied with no marker.
C7_EncodedStructure ==
    WriteReturned =>
        LET N == NBits
            Pos(i) == i + 1 + OnesBefore(Min(i, N))
        IN  /\ N <= Len(text)
            /\ Len(string_buffer) = Len(text) + OnesBefore(N)
            /\ \A i \in 0..(Len(text) - 1) : string_buffer[Pos(i)] = text[i + 1]
            /\ \A i \in 0..(N - 1) :
                   BitAt(i) = 1 => string_buffer[Pos(i) + 1] = hidden_char

C7_Witness ==
    /\ pc = "w_returned"
    /\ NBits = 16
    /\ OnesBefore(8) >= 2
    /\ OnesBefore(16) > OnesBefore(8)
    /\ BitAt(15) = 0
    /\ Len(text) > NBits + 1

\* C8: the recorded bits are grouped into bytes most-significant bit first;
\* the scan stops at the first group that is zero, which is not collected;
\* hidden_bytes is exactly the non-zero groups before it, in order, never
\* holds a zero byte, and nothing is recorded after the stop.
C8_TerminatorRule ==
    /\ \A k \in 1..Len(hidden_bytes) :
           hidden_bytes[k] = GroupValue(k) /\ hidden_bytes[k] # 0
    /\ \A k \in 1..NGroups :
           GroupValue(k) = 0 =>
               /\ k = NGroups
               /\ Len(recorded) = 8 * k
               /\ ScanOver
               /\ Len(hidden_bytes) = k - 1
    /\ (\A k \in 1..NGroups : GroupValue(k) # 0) => Len(hidden_bytes) = NGroups
    /\ pc \in {"r_returned", "r_decode_error"} =>
           result = bytes_decode(hidden_bytes, encoding)

C8_Witness ==
    /\ pc = "r_returned"
    /\ Len(hidden_bytes) >= 1
    /\ NGroups = Len(hidden_bytes) + 1
    /\ GroupValue(NGroups) = 0
    /\ scan_pos + 2 <= Len(r_text)
    /\ \E i \in (scan_pos + 1)..Len(r_text) : r_text[i] = hidden_char

\* C9: every scan reaches DONE, by a completed zero byte or by coming to the
\* end of the text; the step that meets the last character records nothing,
\* at DONE the bits held in the accumulator are left out of hidden_bytes,
\* and the value returned is decoded from the complete bytes alone.
C9_EndOfTextRule ==
    /\ [](pc = "r_loop" => <>(pc = "r_done"))
    /\ [][(pc = "r_loop" /\ scan_pos + 1 >= Len(r_text)) =>
             /\ pc' = "r_done"
             /\ hidden_bytes' = hidden_bytes
             /\ current_byte' = current_byte
             /\ recorded' = recorded]_vars
    /\ [](pc = "r_done" =>
             /\ \/ current_byte = Zeros8
                \/ scan_pos >= Len(r_text) /\ Len(current_byte) <= 7
             /\ Len(recorded) = 8 * Len(hidden_bytes) + Len(current_byte))
    /\ [][pc = "r_done" => result' = bytes_decode(hidden_bytes, encoding)]_vars

C9_Witness ==
    /\ pc = "r_done"
    /\ scan_pos = Len(r_text)
    /\ Len(hidden_bytes) >= 1
    /\ Len(current_byte) >= 1
    /\ Len(current_byte) <= 7
    /\ \E k \in 1..Len(current_byte) : current_byte[k] = 1

\* C10: with the default encoding, a payload of B bytes none of them zero and
\* a carrier of length >= 8*B + 1 that does not contain the marker, the text
\* written is read back: the character carrying the last payload bit is not
\* the last character of the encoded text, the scan records every payload
\* bit, everything recorded after them is a 0-bit, and the bytes collected
\* are the payload.
C10_RoundTripAtBoundary ==
    (/\ entry = "write"
     /\ encoding = "utf-8"
     /\ ~ZeroByteInPayload
     /\ ~MarkerInText
     /\ Len(text) >= NBits + 1)
        => /\ ~WriteFailed
           /\ WriteReturned => Len(string_buffer) > NBits + OnesBefore(NBits)
           /\ ScanOver =>
                /\ Len(recorded) >= NBits
                /\ \A i \in 1..Len(recorded) :
                       recorded[i] = IF i <= NBits THEN BitAt(i - 1) ELSE 0
                /\ hidden_bytes = Payload
           /\ Finished => RoundTripped

C10_Witness ==
    /\ entry = "write"
    /\ encoding = "utf-8"
    /\ ~MarkerInText
    /\ Len(Payload) >= 1
    /\ BitAt(NBits - 1) = 0
    /\ Len(text) = NBits + 1
    /\ RoundTripped

====
